---- MODULE Spec2Model ----
(***************************************************************************)
(* A model of workshop.py: the synchronisation of a local directory of    *)
(* Steam workshop plugins with one or more workshop collections.           *)
(*                                                                         *)
(* One behaviour is one launch of the script (main).  The remote catalog   *)
(* (world), the command line (argv), the state file found at start (disk)  *)
(* and the value the operator gave g_iLimitDownloads are drawn in Init.    *)
(* The outcome of every network request is drawn where the request is      *)
(* made.  The worker threads of one download_plugins_concurrently call     *)
(* interleave with its dispatch loop and with each other.                  *)
(***************************************************************************)
EXTENDS Integers, Sequences, FiniteSets, TLC

(***************************************************************************)
(* Bounds of the model.                                                    *)
(***************************************************************************)
\* g_iLimitDownloads ranges over 0..MaxLimit (0 = don't limit downloads).
MaxLimit == 2
\* time_updated values range over 1..MaxTime; the catalog reports NowTime.
MaxTime == 2
\* get_plugins_id_from_collections_list recurses to level MaxDepth at most:
\* the model's stand-in for the recursion limit of the interpreter, beyond
\* which a call raises RecursionError.
MaxDepth == 3

(***************************************************************************)
(* Program constants.                                                      *)
(***************************************************************************)
\* while plugins_info and num_download_failures < 5
MaxDownloadFailures == 5

Collections == {"c1", "c2"}
Plugins == {"a", "b", "c"}

\* The children entries of a GetCollectionDetails answer.
File(id) == [publishedfileid |-> id, filetype |-> 0]
SubCollection(id) == [publishedfileid |-> id, filetype |-> 2]
Other(id) == [publishedfileid |-> id, filetype |-> 1]

(***************************************************************************)
(* The remote catalogs considered.  children[c] is the 'children' list of  *)
(* collection c, withChildren the collections whose answer carries the     *)
(* 'children' key, nourl the plugins whose file details carry no           *)
(* 'file_url'.                                                             *)
(***************************************************************************)
\* one flat collection of three plugins
WorldFlat ==
  [children |-> [c \in Collections |->
                   IF c = "c1" THEN <<File("a"), File("b"), File("c")>> ELSE <<>>],
   withChildren |-> {"c1"},
   nourl |-> {}]

\* a nested collection; plugin a is referenced at both depths
WorldNested ==
  [children |-> [c \in Collections |->
                   IF c = "c1" THEN <<File("a"), SubCollection("c2")>>
                   ELSE <<File("a"), File("b")>>],
   withChildren |-> {"c1", "c2"},
   nourl |-> {}]

\* two top-level collections sharing plugin b, which has no file_url, and a
\* child of an unrecognized file type
WorldShared ==
  [children |-> [c \in Collections |->
                   IF c = "c1" THEN <<File("a"), Other("c"), File("b")>>
                   ELSE <<File("b")>>],
   withChildren |-> {"c1", "c2"},
   nourl |-> {"b"}]

\* a collection that lists itself among its children
WorldCyclic ==
  [children |-> [c \in Collections |->
                   IF c = "c1" THEN <<File("a"), SubCollection("c1")>> ELSE <<>>],
   withChildren |-> {"c1"},
   nourl |-> {}]

\* The time_updated the catalog reports for every plugin.
NowTime == MaxTime

\* What is kept of a plugin in the state file.
Meta(t) == [title |-> "title", time_updated |-> t]

Range(s) == {s[i] : i \in DOMAIN s}

NoDuplicates(s) == \A i, j \in DOMAIN s : s[i] = s[j] => i = j

\* The orders in which a Python set can be listed: list(set(...)).
Perms(S) == {s \in [1..Cardinality(S) -> S] : Range(s) = S}

EmptyMap == [k \in {} |-> Meta(1)]

\* The plugins maps a state file can hold: any set of plugins, each as the
\* catalog has it now, except that plugin a may be of an earlier time.
PluginMaps ==
  {[p \in D |-> Meta(IF p = "a" THEN t ELSE NowTime)] :
     D \in SUBSET Plugins, t \in 1..MaxTime}

NoDisk == [exists |-> FALSE, collections |-> <<>>, plugins |-> EmptyMap]

\* The state files an earlier launch can have written (json.dump of
\* saved_data, which then holds both keys).
Disks ==
  {[exists |-> TRUE, collections |-> <<"c1">>, plugins |-> pm] : pm \in PluginMaps}
  \cup {[exists |-> TRUE, collections |-> <<>>,
         plugins |-> [p \in {"c"} |-> Meta(NowTime)]]}

\* The state files that hold every plugin of Plugins.
FullDisks == {d \in Disks : DOMAIN d.plugins = Plugins}

(***************************************************************************)
(* The launches considered: a catalog, the collection ids given on the     *)
(* command line, and the state file found.  The catalog of three plugins   *)
(* is met on a first launch (also one that names the collection without    *)
(* children alone) and with the state files that hold all three;           *)
(* the catalogs of two plugins with every state file; the catalog with a   *)
(* cycle on a first launch.                                                *)
(***************************************************************************)
Launches ==
  {[world |-> WorldFlat, argv |-> av, disk |-> NoDisk] : av \in {<<"c1">>, <<"c2">>}}
  \cup {[world |-> WorldFlat, argv |-> av, disk |-> d] :
          av \in {<<>>, <<"c1", "c2">>}, d \in FullDisks}
  \cup {[world |-> WorldNested, argv |-> av, disk |-> d] :
          av \in {<<>>, <<"c1">>}, d \in {NoDisk} \cup Disks}
  \cup {[world |-> WorldShared, argv |-> av, disk |-> d] :
          av \in {<<>>, <<"c1", "c2">>}, d \in {NoDisk} \cup Disks}
  \cup {[world |-> WorldCyclic, argv |-> <<"c1">>, disk |-> NoDisk]}

VARIABLES
  \* the environment of one launch
  world, argv, g_iLimitDownloads,
  \* the state file addons.lst
  disk,
  \* main
  pc, error, saved_data, collections_id_list, plugins_id_list,
  valid_collections, old_plugins, plugins_info, num_download_failures,
  \* get_plugins_id_from_collections_list: the ids of the request of the
  \* current recursion level, and the level
  sub_collection, depth,
  \* download_plugins_concurrently: position of the dispatch loop, the
  \* threads started, and the closure variables shared with the workers
  idx, threads, fail, succeed, dl_error, downloads,
  \* history of the launch (not program state)
  hist

envVars == <<world, argv, g_iLimitDownloads>>
resolverVars == <<sub_collection, depth>>
callVars == <<idx, threads, fail, succeed, dl_error, downloads>>
mainVars == <<error, saved_data, collections_id_list, plugins_id_list,
              valid_collections, old_plugins, plugins_info,
              num_download_failures>>

vars == <<envVars, disk, pc, mainVars, resolverVars, callVars, hist>>

(***************************************************************************)
(* The catalog (the two Steam requests) and the state file.  The catalog   *)
(* answers for the ids counted by collectioncount / itemcount, one entry   *)
(* for each, in the order asked.                                           *)
(***************************************************************************)
\* How a request to the catalog can end: an answer, an HTTPError, a URLError
\* whose reason is a str, a URLError whose reason is an exception object.
RequestOutcomes == {"ok", "HTTPError", "URLError_str", "URLError_obj"}

\* How urlretrieve can end in a worker.
DownloadOutcomes == {"ok", "HTTPError", "URLError"}

\* One publishedfiledetails entry of the catalog.
FileDetails(w, id) ==
  [publishedfileid |-> id, has_file_url |-> id \notin w.nourl,
   time_updated |-> NowTime]

\* The children of the collections of ids that have any, in answer order.
RECURSIVE AllChildren(_, _)
AllChildren(w, ids) ==
  IF ids = <<>> THEN <<>>
  ELSE (IF Head(ids) \in w.withChildren THEN w.children[Head(ids)] ELSE <<>>)
       \o AllChildren(w, Tail(ids))

IsPlugin(item) == item.filetype = 0
IsCollection(item) == item.filetype = 2
Ids(items) == [i \in DOMAIN items |-> items[i].publishedfileid]

\* saved_data = {} when there is no state file.
load_saved_data(d) ==
  IF d.exists
    THEN [hasCollections |-> TRUE, collections |-> d.collections,
          hasPlugins |-> TRUE, plugins |-> d.plugins]
    ELSE [hasCollections |-> FALSE, collections |-> <<>>,
          hasPlugins |-> FALSE, plugins |-> EmptyMap]

\* json.dump(saved_data, file)
dump(sd) == [exists |-> TRUE, collections |-> sd.collections, plugins |-> sd.plugins]

\* (a variant of update: the map is replaced by the new entries)
UpdateReplace(p, s) == s

\* dict.update
update(p, s) ==
  [k \in DOMAIN p \cup DOMAIN s |-> IF k \in DOMAIN s THEN s[k] ELSE p[k]]

\* The keys of a dict in their (fixed) order of iteration.
RECURSIVE SetToSeq(_)
SetToSeq(S) ==
  IF S = {} THEN <<>>
  ELSE LET x == CHOOSE y \in S : TRUE IN <<x>> \o SetToSeq(S \ {x})
keys(d) == SetToSeq(DOMAIN d)

RECURSIVE Filter(_, _)
Filter(s, S) ==
  IF s = <<>> THEN <<>>
  ELSE (IF Head(s) \in S THEN <<>> ELSE <<Head(s)>>) \o Filter(Tail(s), S)

\* (a variant of plugins_to_remove: the test of line 191 is left out)
plugins_to_remove_all(ids, old) == keys(old)

\* The keys of old that are not in plugins_id_list.
plugins_to_remove(ids, old) == Filter(keys(old), Range(ids))

Hist0 ==
  [disk0 |-> disk,          \* the state file found at start
   collFailed |-> FALSE,    \* a collection-details request failed
   collFailedDepth |-> 0,   \* ... at this recursion level
   depFailed |-> FALSE,     \* the file-details request for the deprecated failed
   deprecated |-> {},       \* the deprecated plugins found
   removed |-> <<>>,        \* the list plugins_to_remove returned
   expanded |-> {},         \* the collections whose children were listed
   resolvedOk |-> FALSE,    \* the resolver returned without error
   resolved |-> <<>>,       \* the plugin ids it returned to main
   input |-> <<>>,          \* the plugins given to the current call
   fileReqs |-> 0,          \* file-details requests made
   writes |-> 0,            \* times the state file was written
   calls |-> 0,             \* calls of download_plugins_concurrently
   consec |-> 0,            \* latest consecutive calls with a failed download
   fetched |-> {},          \* plugins urlretrieve was called for
   ok |-> {},               \* plugins downloaded or found up to date
   entered |-> FALSE]       \* the download loop was entered

Init ==
  /\ \E l \in Launches : world = l.world /\ argv = l.argv /\ disk = l.disk
  /\ g_iLimitDownloads \in 0..MaxLimit
  /\ pc = "start"
  /\ error = "0"
  /\ saved_data = load_saved_data([exists |-> FALSE])
  /\ collections_id_list = <<>>
  /\ plugins_id_list = <<>>
  /\ valid_collections = <<>>
  /\ old_plugins = EmptyMap
  /\ plugins_info = <<>>
  /\ num_download_failures = 0
  /\ sub_collection = <<>>
  /\ depth = 0
  /\ idx = 1
  /\ threads = <<>>
  /\ fail = <<>>
  /\ succeed = EmptyMap
  /\ dl_error = 0
  /\ downloads = 0
  /\ hist = Hist0

(***************************************************************************)
(* main, lines 199-210: init, load_saved_data, the collections to resolve. *)
(***************************************************************************)
\* collections_id_list after lines 202-207
MergedCollections(args, sd) ==
  IF ~sd.hasCollections THEN {args}
  ELSE IF args = <<>> THEN {sd.collections}
  ELSE Perms(Range(args \o sd.collections))

main_start ==
  /\ pc = "start"
  /\ IF argv = <<>> /\ ~disk.exists
       THEN \* init: "No save file found", usage, sys.exit(0)
            /\ pc' = "exited"
            /\ UNCHANGED <<mainVars, resolverVars>>
       ELSE /\ saved_data' = load_saved_data(disk)
            /\ \E cl \in MergedCollections(argv, saved_data') :
                 /\ collections_id_list' = cl
                 /\ sub_collection' = cl
                 /\ IF cl = <<>>
                      THEN error' = "1" /\ pc' = "aborted"
                      ELSE error' = "0" /\ pc' = "resolve"
            /\ depth' = 0
            /\ UNCHANGED <<plugins_id_list, valid_collections, old_plugins,
                           plugins_info, num_download_failures>>
  /\ UNCHANGED <<envVars, disk, callVars, hist>>

(***************************************************************************)
(* get_plugins_id_from_collections_list: one step is one recursion level,  *)
(* that is one GetCollectionDetails request and the handling of its        *)
(* answer.  A level returns its own plugin ids followed by those of the    *)
(* deeper levels, so plugins_id_list accumulates them in that order; the   *)
(* valid collections main receives are those of the outermost level.       *)
(***************************************************************************)
get_plugins_id_from_collections_list(outcome) ==
  /\ pc = "resolve"
  /\ CASE outcome = "ok" ->
            LET items == AllChildren(world, sub_collection)
                subs == Ids(SelectSeq(items, IsCollection))
                list == plugins_id_list \o Ids(SelectSeq(items, IsPlugin))
                Expanded == Range(sub_collection) \cap world.withChildren
            IN /\ plugins_id_list' = list
               /\ valid_collections' =
                    IF depth = 0
                      THEN SelectSeq(sub_collection,
                                     LAMBDA c : c \in world.withChildren)
                      ELSE valid_collections
               /\ IF subs # <<>> /\ depth < MaxDepth
                    THEN \* line 155: the recursive call
                         /\ sub_collection' = subs
                         /\ depth' = depth + 1
                         /\ pc' = "resolve"
                         /\ hist' = [hist EXCEPT !.expanded = @ \cup Expanded]
                         /\ UNCHANGED error
                    ELSE IF subs # <<>>
                    THEN \* line 155 at the recursion limit: RecursionError
                         /\ error' = "RecursionError"
                         /\ pc' = "crashed"
                         /\ hist' = [hist EXCEPT !.expanded = @ \cup Expanded]
                         /\ UNCHANGED resolverVars
                    ELSE /\ error' = "None"
                         /\ pc' = "reconcile"
                         /\ hist' = [hist EXCEPT !.resolvedOk = TRUE,
                                                 !.resolved = list,
                                                 !.expanded = @ \cup Expanded]
                         /\ UNCHANGED resolverVars
       [] outcome \in {"HTTPError", "URLError_str"} ->
            \* error = e, returned through every level (lines 155-158);
            \* main, lines 213 and 232, does nothing more unless error is
            \* None
            /\ error' = outcome
            /\ pc' = "aborted"
            /\ hist' = [hist EXCEPT !.collFailed = TRUE,
                                    !.collFailedDepth = depth]
            /\ UNCHANGED <<plugins_id_list, valid_collections, resolverVars>>
       [] outcome = "URLError_obj" ->
            \* "Can't reach server: " + e.reason raises TypeError
            /\ error' = "TypeError"
            /\ pc' = "crashed"
            /\ hist' = [hist EXCEPT !.collFailed = TRUE,
                                    !.collFailedDepth = depth]
            /\ UNCHANGED <<plugins_id_list, valid_collections, resolverVars>>
  /\ UNCHANGED <<envVars, disk, saved_data, collections_id_list, old_plugins,
                 plugins_info, num_download_failures, callVars>>

(***************************************************************************)
(* main, lines 213-230: the reconciliation with the plugins of the state   *)
(* file.  outcome is how the file-details request for the deprecated       *)
(* plugins ends, when there are any.                                       *)
(***************************************************************************)
\* lines 226-230 (and 229-230): the ids to download, old_plugins, and the
\* plugins map emptied for this launch
ReconcileRest(err) ==
  /\ error' = err
  /\ saved_data' = [hasCollections |-> TRUE, collections |-> valid_collections,
                    hasPlugins |-> TRUE, plugins |-> EmptyMap]
  /\ IF saved_data.hasPlugins
       THEN /\ old_plugins' = saved_data.plugins
            /\ plugins_id_list' \in
                 Perms(Range(plugins_id_list \o keys(saved_data.plugins)))
       ELSE /\ old_plugins' = EmptyMap
            /\ UNCHANGED plugins_id_list
  /\ pc' = "fetch"

main_reconcile(outcome) ==
  /\ pc = "reconcile"
  /\ LET deprecated_plugins ==
           IF saved_data.hasPlugins
             THEN plugins_to_remove(plugins_id_list, saved_data.plugins)
             ELSE <<>>
     IN IF deprecated_plugins = <<>>
          THEN /\ outcome = "ok"
               /\ ReconcileRest("None")
               /\ UNCHANGED hist
          ELSE CASE outcome = "ok" ->
                      \* line 224: print_deprecated_info (like deletePlugins,
                      \* line 225) is defined nowhere: NameError
                      /\ error' = "NameError"
                      /\ pc' = "crashed"
                      /\ hist' = [hist EXCEPT
                                    !.deprecated = Range(deprecated_plugins),
                                    !.removed = deprecated_plugins,
                                    !.fileReqs = @ + 1]
                      /\ saved_data' = [saved_data EXCEPT
                                          !.hasCollections = TRUE,
                                          !.collections = valid_collections]
                      /\ old_plugins' = saved_data.plugins
                      /\ UNCHANGED plugins_id_list
                 [] outcome \in {"HTTPError", "URLError_str"} ->
                      \* error = e; lines 226-231 follow all the same
                      /\ ReconcileRest(outcome)
                      /\ hist' = [hist EXCEPT
                                    !.deprecated = Range(deprecated_plugins),
                                    !.removed = deprecated_plugins,
                                    !.depFailed = TRUE,
                                    !.fileReqs = @ + 1]
                 [] outcome = "URLError_obj" ->
                      /\ error' = "TypeError"
                      /\ pc' = "crashed"
                      /\ hist' = [hist EXCEPT
                                    !.deprecated = Range(deprecated_plugins),
                                    !.removed = deprecated_plugins,
                                    !.depFailed = TRUE,
                                    !.fileReqs = @ + 1]
                      /\ saved_data' = [saved_data EXCEPT
                                          !.hasCollections = TRUE,
                                          !.collections = valid_collections]
                      /\ old_plugins' = saved_data.plugins
                      /\ UNCHANGED plugins_id_list
  /\ UNCHANGED <<envVars, disk, collections_id_list, valid_collections,
                 plugins_info, num_download_failures, resolverVars, callVars>>

(***************************************************************************)
(* main, line 231: get_plugins_info(plugins_id_list); the answer holds one *)
(* entry for each id asked for.  Line 232-233 when it succeeds.            *)
(***************************************************************************)
get_plugins_info(outcome) ==
  /\ pc = "fetch"
  /\ hist' = [hist EXCEPT !.fileReqs = @ + 1]
  /\ CASE outcome = "ok" ->
            /\ error' = "None"
            /\ plugins_info' =
                 [i \in DOMAIN plugins_id_list |->
                    FileDetails(world, plugins_id_list[i])]
            /\ num_download_failures' = 0
            /\ pc' = "loop"
       [] outcome \in {"HTTPError", "URLError_str"} ->
            /\ error' = outcome
            /\ pc' = "aborted"
            /\ UNCHANGED <<plugins_info, num_download_failures>>
       [] outcome = "URLError_obj" ->
            /\ error' = "TypeError"
            /\ pc' = "crashed"
            /\ UNCHANGED <<plugins_info, num_download_failures>>
  /\ UNCHANGED <<envVars, disk, saved_data, collections_id_list,
                 plugins_id_list, valid_collections, old_plugins,
                 resolverVars, callVars>>

(***************************************************************************)
(* main, lines 235 and 248-251: the test of the download loop.             *)
(***************************************************************************)
\* (a variant of LoopCondition: the list is not tested)
LoopConditionAnyList(info, n) == n < MaxDownloadFailures

\* line 235: while plugins_info and num_download_failures < 5
LoopCondition(info, n) == info # <<>> /\ n < MaxDownloadFailures

main_loop ==
  /\ pc = "loop"
  /\ IF LoopCondition(plugins_info, num_download_failures)
       THEN \* download_plugins_concurrently, lines 44-47 and 78
            /\ pc' = "dispatch"
            /\ idx' = 1
            /\ threads' = <<>>
            /\ fail' = <<>>
            /\ succeed' = EmptyMap
            /\ dl_error' = 0
            /\ downloads' = 0
            /\ hist' = [hist EXCEPT !.calls = @ + 1, !.entered = TRUE,
                                    !.input = plugins_info]
       ELSE /\ pc' = IF num_download_failures # 0 THEN "givenup" ELSE "done"
            /\ UNCHANGED <<callVars, hist>>
  /\ UNCHANGED <<envVars, disk, mainVars, resolverVars>>

(***************************************************************************)
(* download_plugins_concurrently, lines 79-84: one turn of the dispatch    *)
(* loop.                                                                   *)
(***************************************************************************)
\* line 80
LimitReached(n, limit) == n >= limit /\ limit # 0

\* (a variant of Skip: the plugin passed over is put in the fail list)
SkipToFail(f, plugin) == Append(f, plugin)

\* line 81, continue: the fail list after a plugin was passed over
Skip(f, plugin) == f

dispatch ==
  /\ pc = "dispatch"
  /\ idx <= Len(plugins_info)
  /\ idx' = idx + 1
  /\ IF LimitReached(downloads, g_iLimitDownloads)
       THEN /\ fail' = Skip(fail, plugins_info[idx])
            /\ UNCHANGED threads
       ELSE /\ threads' = Append(threads, [plugin |-> plugins_info[idx],
                                           at |-> idx,
                                           st |-> "started",
                                           res |-> "none",
                                           tmp |-> 0])
            /\ UNCHANGED fail
  /\ UNCHANGED <<envVars, disk, pc, mainVars, resolverVars,
                 succeed, dl_error, downloads, hist>>

(***************************************************************************)
(* download_plugin, the worker thread.                                     *)
(***************************************************************************)
\* (a variant of UpToDate: the time of the update is not compared)
UpToDateIgnoringTime(plugin, old) == plugin.publishedfileid \in DOMAIN old

\* (a variant of UpToDate: nothing is ever up to date)
UpToDateNever(plugin, old) == FALSE

\* lines 53-55
UpToDate(plugin, old) ==
  /\ plugin.publishedfileid \in DOMAIN old
  /\ old[plugin.publishedfileid].time_updated = plugin.time_updated

\* lines 57 and 65: succeed[publishedfileid] = {title, time_updated}
Record(s, plugin) ==
  [k \in DOMAIN s \cup {plugin.publishedfileid} |->
     IF k = plugin.publishedfileid THEN Meta(plugin.time_updated) ELSE s[k]]

\* (a variant of HasFileUrl: the test of line 51 is left out)
HasFileUrlAlways(plugin) == TRUE

\* line 51: if 'file_url' in plugin (the if has no else)
HasFileUrl(plugin) == plugin.has_file_url

\* lines 51-58: up to the call of urlretrieve
download_plugin(i) ==
  /\ pc = "dispatch"
  /\ i \in DOMAIN threads
  /\ threads[i].st = "started"
  /\ LET plugin == threads[i].plugin
         id == plugin.publishedfileid
     IN IF ~HasFileUrl(plugin)
          THEN /\ threads' = [threads EXCEPT ![i].st = "finished",
                                             ![i].res = "nourl"]
               /\ UNCHANGED <<succeed, hist>>
          ELSE IF UpToDate(plugin, old_plugins)
          THEN /\ succeed' = Record(succeed, plugin)
               /\ threads' = [threads EXCEPT ![i].st = "finished",
                                             ![i].res = "uptodate"]
               /\ hist' = [hist EXCEPT !.ok = @ \cup {id}]
          ELSE /\ threads' = [threads EXCEPT ![i].st = "retrieving"]
               /\ hist' = [hist EXCEPT !.fetched = @ \cup {id}]
               /\ UNCHANGED succeed
  /\ UNCHANGED <<envVars, disk, pc, mainVars, resolverVars,
                 idx, fail, dl_error, downloads>>

\* (a variant of CountError: the worker adds to a value of its own, not to
\* the shared count, as an update lost without download_lock)
CountErrorUnlocked(e, t) == t.tmp + 1

\* lines 73-74: error += 1 by worker t, under download_lock
CountError(e, t) == e + 1

\* lines 63-66 and 72-76: urlretrieve ends.  On success the worker records
\* the plugin and reads downloads for downloads += 1; on an HTTPError it
\* counts the failure under download_lock; a URLError is caught by nothing
\* and ends the thread.
urlretrieve(i, outcome) ==
  /\ pc = "dispatch"
  /\ i \in DOMAIN threads
  /\ threads[i].st = "retrieving"
  /\ LET plugin == threads[i].plugin
     IN CASE outcome = "ok" ->
               /\ succeed' = Record(succeed, plugin)
               /\ threads' = [threads EXCEPT ![i].st = "counting",
                                             ![i].res = "ok",
                                             ![i].tmp = downloads]
               /\ hist' = [hist EXCEPT !.ok = @ \cup {plugin.publishedfileid}]
               /\ UNCHANGED <<fail, dl_error>>
          [] outcome = "HTTPError" ->
               /\ dl_error' = CountError(dl_error, threads[i])
               /\ fail' = Append(fail, plugin)
               /\ threads' = [threads EXCEPT ![i].st = "finished",
                                             ![i].res = "HTTPError"]
               /\ UNCHANGED <<succeed, hist>>
          [] outcome = "URLError" ->
               /\ threads' = [threads EXCEPT ![i].st = "finished",
                                             ![i].res = "URLError"]
               /\ UNCHANGED <<succeed, fail, dl_error, hist>>
  /\ UNCHANGED <<envVars, disk, pc, mainVars, resolverVars, idx, downloads>>

\* line 66, the store of downloads += 1, and lines 67-70
count_download(i) ==
  /\ pc = "dispatch"
  /\ i \in DOMAIN threads
  /\ threads[i].st = "counting"
  /\ downloads' = threads[i].tmp + 1
  /\ threads' = [threads EXCEPT ![i].st = "finished"]
  /\ UNCHANGED <<envVars, disk, pc, mainVars, resolverVars,
                 idx, fail, succeed, dl_error, hist>>

(***************************************************************************)
(* download_plugins_concurrently, lines 86-89, and main, lines 236-247:    *)
(* the threads are joined, the call returns, the state file is written.    *)
(***************************************************************************)
\* (a variant of AllJoined: only the first thread is joined)
FirstJoined(ts) == ts = <<>> \/ ts[1].st = "finished"

\* lines 86-87
AllJoined(ts) == \A i \in DOMAIN ts : ts[i].st = "finished"

\* lines 240-247
CountFailures(n, err) == IF err > 0 THEN n + 1 ELSE 0

FailedDownload(ts) == \E i \in DOMAIN ts : ts[i].res \in {"HTTPError", "URLError"}

main_save ==
  /\ pc = "dispatch"
  /\ idx > Len(plugins_info)
  /\ AllJoined(threads)
  /\ plugins_info' = fail
  /\ saved_data' = [saved_data EXCEPT !.plugins = update(@, succeed)]
  /\ disk' = dump(saved_data')
  /\ num_download_failures' = CountFailures(num_download_failures, dl_error)
  /\ pc' = "loop"
  /\ hist' = [hist EXCEPT !.writes = @ + 1,
                          !.consec = IF FailedDownload(threads) THEN @ + 1 ELSE 0]
  /\ UNCHANGED <<envVars, error, collections_id_list, plugins_id_list,
                 valid_collections, old_plugins, resolverVars, callVars>>

(***************************************************************************)
(* Properties.                                                             *)
(***************************************************************************)
Terminal == pc \in {"done", "givenup"}

\* urlretrieve was called by the worker.
Attempted(t) ==
  t.st \in {"retrieving", "counting"} \/ t.res \in {"ok", "HTTPError", "URLError"}

NumAttempts == Cardinality({i \in DOMAIN threads : Attempted(threads[i])})

\* The entries of the input of the current call no thread was started for.
Undispatched ==
  {k \in DOMAIN hist.input : \A i \in DOMAIN threads : threads[i].at # k}

\* The call has returned and the state file is written.
Returned == pc = "loop" /\ hist.calls > 0

\* C1: with a limit L > 0, one call of download_plugins_concurrently makes
\* at most L download attempts (calls of urlretrieve), whatever the
\* interleaving of the dispatch loop and the workers.
C1_AttemptsWithinLimit ==
  (pc = "dispatch" /\ g_iLimitDownloads > 0) => NumAttempts <= g_iLimitDownloads

\* C2 as stated: when the call returns with the limit reached, every plugin
\* of the input that was not dispatched is in the returned fail list
\* (`remaining`), and so is offered to the next call.
C2_UndispatchedReturned ==
  Returned => \A k \in Undispatched : hist.input[k] \in Range(plugins_info)

\* C2 as amended: when the call returns with the limit reached, the plugins
\* not dispatched are dropped: the returned fail list holds exactly one entry
\* for each worker whose download ended in an HTTPError, the failure count
\* is its length, succeed holds only dispatched plugins, and the next call
\* is given the fail list alone.
C2_UndispatchedDropped ==
  Returned =>
    /\ plugins_info = fail
    /\ dl_error = Len(fail)
    /\ \A r \in Range(hist.input) \cup Range(fail) :
         Cardinality({j \in DOMAIN fail : fail[j] = r}) =
         Cardinality({i \in DOMAIN threads :
                        threads[i].plugin = r /\ threads[i].res = "HTTPError"})
    /\ DOMAIN succeed \subseteq
         {threads[i].plugin.publishedfileid : i \in DOMAIN threads}

C2_Witness ==
  /\ Returned
  /\ Undispatched # {}
  /\ \E k \in Undispatched :
       hist.input[k].publishedfileid \notin DOMAIN succeed
  /\ fail # <<>>

\* C3: a launch that enters the download loop calls
\* download_plugins_concurrently at most 5 times, and ends given up exactly
\* when 5 consecutive calls each had at least one failed download.
C3_GivenUpIffFiveFailures ==
  /\ hist.calls <= MaxDownloadFailures
  /\ Terminal => (pc = "givenup" <=> hist.consec = MaxDownloadFailures)

\* C4: after every call the state file is written before the next call or
\* the end, and the plugins map written holds every plugin that was
\* downloaded or found up to date in that call or an earlier one of the
\* launch, with the catalog's time.
C4_SucceededPersisted ==
  (pc = "loop" \/ Terminal) =>
    /\ hist.writes = hist.calls
    /\ \A id \in hist.ok :
         /\ id \in DOMAIN disk.plugins
         /\ disk.plugins[id] = Meta(NowTime)

C4_Witness ==
  /\ pc = "givenup"
  /\ hist.calls = MaxDownloadFailures
  /\ Cardinality(hist.ok) >= 2
  /\ succeed = EmptyMap

\* C5: when a collection-details request fails (HTTPError or URLError), at
\* whatever recursion level, the resolver returns the error to main and the
\* launch ends: no file-details request, no download, no write of the state
\* file.
C5_CollectionFailureReturned ==
  hist.collFailed =>
    /\ pc = "aborted"
    /\ error \in {"HTTPError", "URLError_str"}
    /\ hist.fileReqs = 0
    /\ hist.calls = 0
    /\ hist.fetched = {}
    /\ hist.writes = 0
    /\ disk = hist.disk0

\* What holds of a failed collection-details request: the launch ends, by
\* the error returned or by the TypeError of line 140, and nothing was
\* requested, downloaded or written.
CollectionFailureEndsLaunch ==
  hist.collFailed =>
    /\ pc \in {"aborted", "crashed"}
    /\ pc = "aborted" => error \in {"HTTPError", "URLError_str"}
    /\ pc = "crashed" => error = "TypeError"
    /\ hist.fileReqs = 0
    /\ hist.calls = 0
    /\ hist.fetched = {}
    /\ hist.writes = 0
    /\ disk = hist.disk0

\* C6: when the file-details request for the deprecated plugins fails, the
\* error ends the launch: the download loop is not entered and the error is
\* not replaced by the result of a later request.
C6_DeprecatedFailureEndsLaunch ==
  hist.depFailed => (error # "None" /\ hist.calls = 0 /\ ~hist.entered)

\* C7: the list of plugin ids the resolver returns to main holds every
\* referenced plugin id once, also on a first launch.
C7_ResolvedOnce ==
  pc = "reconcile" => NoDuplicates(plugins_id_list)

\* C8: a plugin of the state file that is no longer referenced, and whose
\* file-details request succeeds, is removed from the plugins map and from
\* old_plugins once the reconciliation is over, so that the state file of
\* the launch does not hold it.
C8_DeprecatedPruned ==
  (pc \notin {"start", "resolve", "reconcile"} /\ ~hist.depFailed) =>
    \A id \in hist.deprecated :
      /\ id \notin DOMAIN saved_data.plugins
      /\ id \notin DOMAIN old_plugins
      /\ id \notin DOMAIN disk.plugins

\* The state file found agrees with the catalog, as after a complete
\* synchronisation: it holds the valid collections and every resolved plugin
\* that has a file_url, and every plugin in it is as the catalog has it now.
Synced ==
  /\ hist.resolvedOk
  /\ hist.disk0.exists
  /\ Range(hist.disk0.collections) = Range(valid_collections)
  /\ Range(hist.resolved) \ world.nourl \subseteq DOMAIN hist.disk0.plugins
  /\ \A id \in DOMAIN hist.disk0.plugins :
       /\ id \notin world.nourl
       /\ hist.disk0.plugins[id] = Meta(NowTime)

DiskEqual(d, e) ==
  /\ d.exists = e.exists
  /\ Range(d.collections) = Range(e.collections)
  /\ d.plugins = e.plugins

\* C9: a launch that finds the state file of a complete synchronisation with
\* the unchanged catalog downloads nothing, does not give up, and the state
\* file it writes equals the one it found.
C9_Idempotent ==
  Synced =>
    /\ hist.fetched = {}
    /\ DiskEqual(disk, hist.disk0)
    /\ pc # "givenup"
    /\ pc = "done" => hist.writes = 1

C9_Witness ==
  /\ Synced
  /\ pc = "done"
  /\ hist.writes = 1
  /\ Cardinality(DOMAIN disk.plugins) >= 2
  /\ g_iLimitDownloads > 0

\* C10: a worker dispatched for a plugin with a file_url calls urlretrieve
\* exactly when the plugin is not in the plugins map found at start or is
\* there with another time_updated; with the same time_updated it calls
\* nothing and the plugin is recorded in succeed.
C10_DownloadIffNotUpToDate ==
  \A i \in DOMAIN threads :
    LET t == threads[i]
        id == t.plugin.publishedfileid
        prior == hist.disk0.plugins
        same == id \in DOMAIN prior
                /\ prior[id].time_updated = t.plugin.time_updated
    IN (t.plugin.has_file_url /\ t.st # "started") =>
         /\ Attempted(t) <=> ~same
         /\ same => (t.res = "uptodate" /\ id \in DOMAIN succeed
                     /\ succeed[id] = Meta(t.plugin.time_updated))

C10_Witness ==
  \E i, j \in DOMAIN threads :
    /\ threads[i].res = "uptodate"
    /\ Attempted(threads[j])
    /\ threads[j].plugin.publishedfileid \in DOMAIN hist.disk0.plugins
    /\ threads[j].res = "ok"

\* C11 as stated: a plugin whose file details carry no file_url is recorded
\* as succeeded without a download: when the call returns it is in succeed
\* and in the plugins map of the state file.
C11_NoUrlRecorded ==
  Returned =>
    \A i \in DOMAIN threads :
      ~threads[i].plugin.has_file_url =>
        /\ ~Attempted(threads[i])
        /\ threads[i].plugin \notin Range(fail)
        /\ threads[i].plugin.publishedfileid \in DOMAIN succeed
        /\ threads[i].plugin.publishedfileid \in DOMAIN disk.plugins

\* C11 as amended: a plugin whose file details carry no file_url is passed
\* over by its worker: urlretrieve is not called for it, it is not a
\* failure, and it is recorded nowhere, neither in succeed nor in fail, so
\* that no state file written by the launch holds it.
C11_NoUrlPassedOver ==
  /\ \A i \in DOMAIN threads :
       (~threads[i].plugin.has_file_url /\ threads[i].st # "started") =>
         /\ ~Attempted(threads[i])
         /\ threads[i].st = "finished"
         /\ threads[i].res = "nourl"
         /\ threads[i].plugin \notin Range(fail)
         /\ threads[i].plugin.publishedfileid \notin DOMAIN succeed
  /\ hist.fetched \cap world.nourl = {}
  /\ hist.writes > 0 => DOMAIN disk.plugins \cap world.nourl = {}

C11_Witness ==
  /\ Returned
  /\ \E i \in DOMAIN threads :
       /\ threads[i].res = "nourl"
       /\ threads[i].plugin.publishedfileid \in DOMAIN hist.disk0.plugins
  /\ succeed # EmptyMap
  /\ dl_error = 0

\* The reconciliation of lines 213-231 was reached and is over.
Reconciled == hist.resolvedOk /\ pc # "reconcile"

\* C12: plugins_to_remove(plugins_id_list, old_plugins) returns the keys of
\* old_plugins that are not in plugins_id_list, each once, the empty list
\* when plugins_id_list holds every key, and leaves both arguments as they
\* were.
C12_RemovedExactly ==
  (Reconciled /\ hist.disk0.exists) =>
    /\ NoDuplicates(hist.removed)
    /\ Range(hist.removed) = DOMAIN hist.disk0.plugins \ Range(hist.resolved)
    /\ DOMAIN hist.disk0.plugins \subseteq Range(hist.resolved)
         => hist.removed = <<>>
    /\ error = "NameError" => /\ plugins_id_list = hist.resolved
                              /\ old_plugins = hist.disk0.plugins

C12_Witness ==
  /\ Reconciled
  /\ error = "NameError"
  /\ hist.removed # <<>>
  /\ DOMAIN hist.disk0.plugins \cap Range(hist.resolved) # {}
  /\ ~NoDuplicates(hist.resolved)

C12_WitnessNone ==
  /\ Reconciled
  /\ hist.disk0.plugins # EmptyMap
  /\ hist.removed = <<>>

\* The workers of the current call whose download ended in an HTTPError.
HTTPFailed == {i \in DOMAIN threads : threads[i].res = "HTTPError"}

\* C13: under every interleaving of the workers, the failure count of the
\* call equals the length of the fail list and the number of workers whose
\* download ended in an HTTPError, the fail list holds one entry for each of
\* these workers, and the count is zero exactly when the list is empty; so it
\* is when the call returns.
C13_FailuresCounted ==
  (pc = "dispatch" \/ Returned) =>
    /\ dl_error = Len(fail)
    /\ dl_error = Cardinality(HTTPFailed)
    /\ \E f \in [DOMAIN fail -> HTTPFailed] :
         /\ \A j, k \in DOMAIN fail : f[j] = f[k] => j = k
         /\ \A j \in DOMAIN fail : fail[j] = threads[f[j]].plugin
    /\ dl_error = 0 <=> fail = <<>>

C13_Witness ==
  /\ Returned
  /\ Cardinality(HTTPFailed) >= 2
  /\ \E i \in DOMAIN threads : threads[i].res \in {"ok", "URLError"}

\* The file a worker's urlretrieve writes: output_dir/<publishedfileid>.vpk
OutputFile(t) == t.plugin.publishedfileid

\* C14: no two workers that run urlretrieve at the same time write the same
\* file <publishedfileid>.vpk, also when a plugin is referenced by more than
\* one collection and on a first launch with no state file.
C14_DistinctOutputFiles ==
  \A i, j \in DOMAIN threads :
    (i # j /\ threads[i].st = "retrieving" /\ threads[j].st = "retrieving")
      => OutputFile(threads[i]) # OutputFile(threads[j])

\* What holds of the output files: the workers of a call write pairwise
\* distinct files when main found a state file (line 227 then removes the
\* duplicates).
DistinctOutputFilesWithStateFile ==
  hist.disk0.exists =>
    \A i, j \in DOMAIN threads :
      i # j => OutputFile(threads[i]) # OutputFile(threads[j])

\* C15 as stated: once the resolution and the reconciliation have succeeded
\* the state file is written, with the valid collections, before any call
\* of download_plugins_concurrently and also when there is nothing to
\* download.
C15_WrittenAfterReconcile ==
  (Reconciled /\ pc \in {"fetch", "loop", "dispatch", "done", "givenup"}) =>
    /\ hist.writes >= 1
    /\ disk.exists
    /\ Range(disk.collections) = Range(valid_collections)

\* C15 as amended: the state file is written by the download loop alone,
\* once after every call of download_plugins_concurrently (line 238): it is
\* as found at start until the first call has returned, every write follows
\* a call that was given at least one plugin, and a launch with nothing to
\* download ends without writing it.
C15_WrittenByLoopOnly ==
  /\ hist.writes = IF pc = "dispatch" THEN hist.calls - 1 ELSE hist.calls
  /\ hist.writes = 0 => disk = hist.disk0
  /\ hist.calls > 0 => hist.input # <<>>
  /\ hist.writes > 0 => /\ disk.exists
                        /\ Range(disk.collections) = Range(valid_collections)

C15_Witness ==
  /\ pc = "done"
  /\ Reconciled
  /\ error = "None"
  /\ hist.calls = 0
  /\ hist.writes = 0
  /\ ~disk.exists

\* The plugins whose download failed in the call that has just returned.
FailedPlugins ==
  {threads[i].plugin : i \in {j \in DOMAIN threads : FailedDownload(<<threads[j]>>)}}

\* C16: in the download loop, a call in which no download failed is followed
\* by the end of the launch as done, with no further call; a call in which a
\* download failed, before the fifth, is followed by one more call, given
\* exactly the plugins that failed in it and no plugin that has succeeded.
C16_RetryExactlyFailed ==
  Returned =>
    /\ FailedPlugins = {} =>
         /\ ~LoopCondition(plugins_info, num_download_failures)
         /\ num_download_failures = 0
    /\ (FailedPlugins # {} /\ hist.calls < MaxDownloadFailures) =>
         /\ LoopCondition(plugins_info, num_download_failures)
         /\ Range(plugins_info) = FailedPlugins
         /\ \A p \in Range(plugins_info) : p.publishedfileid \notin hist.ok

\* C17: the resolution of the collections ends for every finite catalog: on
\* a tree it makes one request for each nesting level and returns; when a
\* collection is listed among its own descendants, a collection whose
\* children were listed already is not asked for again, and the resolution
\* returns all the same.
C17_ResolutionTerminates ==
  /\ pc = "resolve" => Range(sub_collection) \cap hist.expanded = {}
  /\ depth < Cardinality(Collections)
  /\ error # "RecursionError"

\* What holds of the resolution: on a catalog without a cycle it makes one
\* request for each nesting level, none for a collection already listed, and
\* never reaches the recursion limit.
ResolutionOfTreeReturns ==
  world # WorldCyclic =>
    /\ pc = "resolve" => Range(sub_collection) \cap hist.expanded = {}
    /\ depth < Cardinality(Collections)
    /\ error # "RecursionError"

\* A worker thread that has been started and has not ended.
Running(t) == t.st # "finished"

\* C18: the calls of download_plugins_concurrently are strictly sequential:
\* a call returns only when every thread it started has ended (by return or
\* by an exception), so that no worker runs when the state file is written
\* after the call, when the next call starts, or when the launch ends.
C18_NoWorkerOutsideCall ==
  /\ pc # "dispatch" => \A i \in DOMAIN threads : ~Running(threads[i])
  /\ (\E i \in DOMAIN threads : Running(threads[i])) =>
       /\ pc = "dispatch"
       /\ hist.writes = hist.calls - 1
  /\ (pc = "dispatch" /\ threads = <<>> /\ idx = 1) =>
       hist.writes = hist.calls - 1

C18_Witness ==
  /\ Returned
  /\ hist.calls >= 2
  /\ hist.writes = hist.calls
  /\ Len(threads) >= 2
  /\ \E i \in DOMAIN threads : threads[i].res = "URLError"
  /\ \E i \in DOMAIN threads : threads[i].res = "HTTPError"

\* C19: when a call returns, every plugin with a file_url a worker was
\* started for is in exactly one of succeed and the fail list, however its
\* download ended (success, HTTPError or URLError): in neither both nor none.
C19_SucceedOrFail ==
  Returned =>
    \A i \in DOMAIN threads :
      threads[i].plugin.has_file_url =>
        (threads[i].plugin.publishedfileid \in DOMAIN succeed)
          # (threads[i].plugin \in Range(fail))

\* What holds of the same plugins when no download ended in a URLError and
\* no plugin was given twice to the call: each is in exactly one of the two.
SucceedOrFailWithoutURLError ==
  (Returned /\ NoDuplicates(hist.input)
     /\ \A i \in DOMAIN threads : threads[i].res # "URLError") =>
    \A i \in DOMAIN threads :
      threads[i].plugin.has_file_url =>
        (threads[i].plugin.publishedfileid \in DOMAIN succeed)
          # (threads[i].plugin \in Range(fail))

\* The plugins of the state file found at start that are still referenced
\* and up to date: the resolver returned them, they have a file_url, and
\* the catalog has them with the time_updated of the state file.
KeptUpToDate ==
  {id \in DOMAIN hist.disk0.plugins \cap Range(hist.resolved) :
     UpToDate(FileDetails(world, id), hist.disk0.plugins)
     /\ HasFileUrl(FileDetails(world, id))}

\* C20: a plugin that is in the plugins map at the start of the launch, is
\* still referenced by a resolved collection and is up to date is in the
\* plugins map, with the same metadata, of every state file the launch
\* writes, whatever the value of g_iLimitDownloads and however the downloads
\* of the other plugins end.
C20_UpToDateKept ==
  hist.writes > 0 =>
    \A id \in KeptUpToDate :
      /\ id \in DOMAIN disk.plugins
      /\ disk.plugins[id] = hist.disk0.plugins[id]

\* What holds of these plugins: they are kept when downloads are not
\* limited.
UpToDateKeptWithoutLimit ==
  (hist.writes > 0 /\ g_iLimitDownloads = 0) =>
    \A id \in KeptUpToDate :
      /\ id \in DOMAIN disk.plugins
      /\ disk.plugins[id] = hist.disk0.plugins[id]

Next ==
  \/ main_start
  \/ \E o \in RequestOutcomes : get_plugins_id_from_collections_list(o)
  \/ \E o \in RequestOutcomes : main_reconcile(o)
  \/ \E o \in RequestOutcomes : get_plugins_info(o)
  \/ main_loop
  \/ dispatch
  \/ \E i \in DOMAIN threads : download_plugin(i)
  \/ \E i \in DOMAIN threads, o \in DownloadOutcomes : urlretrieve(i, o)
  \/ \E i \in DOMAIN threads : count_download(i)
  \/ main_save

Spec == Init /\ [][Next]_vars

\* main and every started thread keep running: a launch does not stop
\* while a step is possible.
FairSpec == Spec /\ WF_vars(Next)

\* The launch is over.
Ended == pc \in {"exited", "aborted", "crashed", "done", "givenup"}

\* Every launch ends, given that every request and download ends.
Terminates == <>Ended

\* The download loop calls download_plugins_concurrently at most 5 times.
CallsBounded == hist.calls <= MaxDownloadFailures

====
